---- MODULE Spec2Model ----
(***************************************************************************)
(* Model of the StrokeEngine pattern library (pattern.h): the Pattern base *)
(* class, its delay gate, and the nine pattern variants.                   *)
(*                                                                         *)
(* Floating-point values are modelled as exact rationals <<n, d>> with     *)
(* d > 0 in lowest terms; int(x) truncates toward zero as the C++          *)
(* conversion does.  Rounding of the binary floating-point format itself   *)
(* is not modelled.                                                        *)
(***************************************************************************)
EXTENDS Integers, Sequences, FiniteSets, TLC

VARIABLES
    pat,        \* which of the nine classes the instance is
    p,          \* the fields of the instance
    now,        \* the value millis() returns
    idx,        \* the index the caller passes next when it follows the protocol
    proto,      \* TRUE while every nextTarget call so far followed the protocol
    called,     \* the setters called so far
    cycleTime,  \* the last argument of setTimeOfStroke (<<0, 1>> before the first call)
    op,         \* the last operation performed
    g           \* bookkeeping about the call history (no field of the program)

vars == <<pat, p, now, idx, proto, called, cycleTime, op, g>>

(***************************************************************************)
(* Bounds of the model                                                     *)
(***************************************************************************)
MaxIndex == 5
MaxClock == 3000
MaxExtra == 1
MaxStrokeIndex == 6
MaxIndexLong == 56
MaxClockLong == 1313
MaxIndexRamp == 25
MaxIndexKnot == 9
MaxCallsKnot == 3

(***************************************************************************)
(* Rational arithmetic                                                     *)
(***************************************************************************)
Abs(a) == IF a < 0 THEN -a ELSE a

RECURSIVE Gcd(_, _)
Gcd(a, b) == IF b = 0 THEN a ELSE Gcd(b, a % b)

\* the rational n/d in lowest terms with a positive denominator
R(n, d) ==
    LET s == IF d < 0 THEN -1 ELSE 1
        k == Gcd(Abs(n), Abs(d))
    IN  <<(s * n) \div k, (s * d) \div k>>

I2R(i) == <<i, 1>>
\* a[2] / gcd(a[2], b[2]): the factor that brings b to the common denominator
Co(a, b) == a[2] \div Gcd(a[2], b[2])
RAdd(a, b) == R(a[1] * Co(b, a) + b[1] * Co(a, b), a[2] * Co(b, a))
RSub(a, b) == R(a[1] * Co(b, a) - b[1] * Co(a, b), a[2] * Co(b, a))
RMul(a, b) ==
    LET x == R(a[1], b[2])
        y == R(b[1], a[2])
    IN  R(x[1] * y[1], x[2] * y[2])
RDiv(a, b) == RMul(a, R(b[2], b[1]))
RLt(a, b) == a[1] * Co(b, a) < b[1] * Co(a, b)
RLe(a, b) == a[1] * Co(b, a) <= b[1] * Co(a, b)
RAbs(a) == <<Abs(a[1]), a[2]>>

\* int(x): conversion of a floating-point value to int, truncating toward zero
RInt(a) == IF a[1] >= 0 THEN a[1] \div a[2] ELSE -((-a[1]) \div a[2])

\* the largest n in lo..hi with n * n <= v (v >= lo * lo)
RECURSIVE ISqrtIn(_, _, _)
ISqrtIn(v, lo, hi) ==
    IF lo >= hi THEN lo
    ELSE LET mid == (lo + hi + 1) \div 2
         IN  IF mid * mid <= v THEN ISqrtIn(v, mid, hi) ELSE ISqrtIn(v, lo, mid - 1)

ISqrt(v) == ISqrtIn(v, 0, 46340)

IsSquare(v) == ISqrt(v) * ISqrt(v) = v

\* the largest n in lo..hi with n <= a * (sqrt(q) + h), for rationals a, q, h >= 0
RECURSIVE FloorScaledIn(_, _, _, _, _)
FloorScaledIn(a, q, h, lo, hi) ==
    IF lo >= hi THEN lo
    ELSE LET mid == (lo + hi + 1) \div 2
             \* mid <= a*sqrt(q) + a*h  <=>  L <= a*sqrt(q), L == mid - a*h
             L == RSub(I2R(mid), RMul(a, h))
             ok == \/ L[1] <= 0
                   \/ RLe(RMul(L, L), RMul(RMul(a, a), q))
         IN  IF ok THEN FloorScaledIn(a, q, h, mid, hi)
                   ELSE FloorScaledIn(a, q, h, lo, mid - 1)

\* int(a * (sqrt(q) + h))
FloorScaled(a, q, h) ==
    IF IsSquare(q[1]) /\ IsSquare(q[2])
    THEN RInt(RMul(a, RAdd(R(ISqrt(q[1]), ISqrt(q[2])), h)))
    ELSE FloorScaledIn(a, q, h, 0, RInt(RMul(a, RAdd(RAdd(q, I2R(1)), h))) + 1)

(***************************************************************************)
(* Library functions the patterns call                                     *)
(***************************************************************************)
\* PatternMath.h fscale with curve = 0: linear interpolation of value from
\* [inMin, inMax] to [outBegin, outEnd], the input clamped to its range.
\* Every call in pattern.h passes curve = 0.0.
fscale(inMin, inMax, outBegin, outEnd, value) ==
    LET v == IF RLt(value, inMin) THEN inMin
             ELSE IF RLt(inMax, value) THEN inMax ELSE value
        frac == RDiv(RSub(v, inMin), RSub(inMax, inMin))
    IN  RAdd(outBegin, RMul(frac, RSub(outEnd, outBegin)))

\* Arduino map(): long arithmetic, the division truncating toward zero
map(x, inMin, inMax, outMin, outMax) ==
    RInt(R((x - inMin) * (outMax - outMin), inMax - inMin)) + outMin

(***************************************************************************)
(* class Pattern                                                           *)
(***************************************************************************)
Variants ==
    {"SimpleStroke", "TeasingPounding", "RoboStroke", "HalfnHalf", "Deeper",
     "StopNGo", "Insist", "Slammin", "Knot"}

\* motionParameter _nextMove = {0, 0, 0, false}
NoMove == [stroke |-> 0, speed |-> 0, acceleration |-> 0, skip |-> FALSE]

\* the fields of Pattern after construction; _stroke, _depth and _timeOfStroke
\* have no initialiser and hold the indeterminate values s, d, t
Pattern(s, d, t) ==
    [stroke |-> s, depth |-> d, timeOfStroke |-> t, sensation |-> 0, index |-> -1,
     nextMove |-> NoMove, startDelayMillis |-> 0, delayInMillis |-> 0,
     maxSpeed |-> 0, maxAcceleration |-> 0, stepsPerMM |-> 0]

Pattern_setTimeOfStroke(q, speed) == [q EXCEPT !.timeOfStroke = speed]
Pattern_setStroke(q, stroke) == [q EXCEPT !.stroke = stroke]
Pattern_setDepth(q, depth) == [q EXCEPT !.depth = depth]
Pattern_setSensation(q, sensation) == [q EXCEPT !.sensation = sensation]

\* Pattern::setSpeedLimit that also clamps the stored command to the limits
Pattern_setSpeedLimit_clamping(q, maxSpeed, maxAcceleration, stepsPerMM) ==
    [q EXCEPT !.maxSpeed = maxSpeed, !.maxAcceleration = maxAcceleration,
              !.stepsPerMM = stepsPerMM,
              !.nextMove.speed = IF @ > maxSpeed THEN maxSpeed ELSE @,
              !.nextMove.acceleration = IF @ > maxAcceleration THEN maxAcceleration ELSE @]

Pattern_setSpeedLimit(q, maxSpeed, maxAcceleration, stepsPerMM) ==
    [q EXCEPT !.maxSpeed = maxSpeed, !.maxAcceleration = maxAcceleration,
              !.stepsPerMM = stepsPerMM]

\* the delay gate; t is the value of millis()
startDelay(q, t) == [q EXCEPT !.startDelayMillis = t]
updateDelay(q, delayInMillis) == [q EXCEPT !.delayInMillis = delayInMillis]

\* _isStillDelayed measuring the delay from the current time instead of the
\* time the gate was armed
isStillDelayed_fromNow(q, t) == ~(t > t + q.delayInMillis)

isStillDelayed(q, t) == ~(t > q.startDelayMillis + q.delayInMillis)

\* a setTimeOfStroke override that halves the time: _timeOfStroke = 0.5 * speed
HalfTime(q, speed) == [q EXCEPT !.timeOfStroke = RMul(R(1, 2), speed)]

\* int(1.5 * dist / time) and int(3.0 * speed / time) of the 1/3-1/3-1/3 profile
TrapezSpeed(dist, time) == RInt(RDiv(RMul(R(3, 2), I2R(dist)), time))
TrapezAccel(speed, time) == RInt(RDiv(RMul(I2R(3), I2R(speed)), time))

(***************************************************************************)
(* class SimpleStroke                                                      *)
(***************************************************************************)
SimpleStroke_new(s, d, t) == Pattern(s, d, t)

\* SimpleStroke::setTimeOfStroke without the division by 2
SimpleStroke_setTimeOfStroke_whole(q, speed) == Pattern_setTimeOfStroke(q, speed)

SimpleStroke_setTimeOfStroke(q, speed) == HalfTime(q, speed)

\* SimpleStroke::nextTarget with the parity test inverted
SimpleStroke_nextTarget_flipped(q, index) ==
    LET speed == TrapezSpeed(q.stroke, q.timeOfStroke)
        acc == TrapezAccel(speed, q.timeOfStroke)
        target == IF index % 2 = 0 THEN q.depth - q.stroke ELSE q.depth
    IN  [q EXCEPT !.nextMove = [@ EXCEPT !.speed = speed, !.acceleration = acc,
                                         !.stroke = target],
                  !.index = index]

SimpleStroke_nextTarget(q, index) ==
    LET speed == TrapezSpeed(q.stroke, q.timeOfStroke)
        acc == TrapezAccel(speed, q.timeOfStroke)
        target == IF index % 2 = 1 THEN q.depth - q.stroke ELSE q.depth
    IN  [q EXCEPT !.nextMove = [@ EXCEPT !.speed = speed, !.acceleration = acc,
                                         !.stroke = target],
                  !.index = index]

(***************************************************************************)
(* class TeasingPounding                                                   *)
(***************************************************************************)
TeasingPounding_new(s, d, t) ==
    Pattern(s, d, t) @@
    [timeOfFastStroke |-> I2R(1), timeOfInStroke |-> I2R(1), timeOfOutStroke |-> I2R(1)]

\* _updateStrokeTiming with the fast stroke taken from the whole cycle time
updateStrokeTiming_whole(q) ==
    LET fast == RDiv(q.timeOfStroke,
                     fscale(I2R(0), I2R(100), I2R(1), I2R(5), I2R(Abs(q.sensation))))
    IN  IF q.sensation > 0
        THEN [q EXCEPT !.timeOfFastStroke = fast, !.timeOfInStroke = fast,
                       !.timeOfOutStroke = RSub(q.timeOfStroke, fast)]
        ELSE [q EXCEPT !.timeOfFastStroke = fast, !.timeOfOutStroke = fast,
                       !.timeOfInStroke = RSub(q.timeOfStroke, fast)]

\* _updateStrokeTiming of TeasingPounding and of HalfnHalf (the same text)
updateStrokeTiming(q) ==
    LET fast == RDiv(RMul(R(1, 2), q.timeOfStroke),
                     fscale(I2R(0), I2R(100), I2R(1), I2R(5), I2R(Abs(q.sensation))))
    IN  IF q.sensation > 0
        THEN [q EXCEPT !.timeOfFastStroke = fast, !.timeOfInStroke = fast,
                       !.timeOfOutStroke = RSub(q.timeOfStroke, fast)]
        ELSE [q EXCEPT !.timeOfFastStroke = fast, !.timeOfOutStroke = fast,
                       !.timeOfInStroke = RSub(q.timeOfStroke, fast)]

TeasingPounding_setSensation(q, sensation) ==
    updateStrokeTiming([q EXCEPT !.sensation = sensation])

TeasingPounding_setTimeOfStroke(q, speed) ==
    updateStrokeTiming([q EXCEPT !.timeOfStroke = speed])

\* TeasingPounding::nextTarget with the acceleration taken over the whole cycle time
TeasingPounding_nextTarget_fullTime(q, index) ==
    LET out == index % 2 = 1
        time == IF out THEN q.timeOfOutStroke ELSE q.timeOfInStroke
        speed == TrapezSpeed(q.stroke, time)
        acc == TrapezAccel(speed, q.timeOfStroke)
        target == IF out THEN q.depth - q.stroke ELSE q.depth
    IN  [q EXCEPT !.nextMove = [@ EXCEPT !.speed = speed, !.acceleration = acc,
                                         !.stroke = target],
                  !.index = index]

TeasingPounding_nextTarget(q, index) ==
    LET out == index % 2 = 1
        time == IF out THEN q.timeOfOutStroke ELSE q.timeOfInStroke
        speed == TrapezSpeed(q.stroke, time)
        acc == TrapezAccel(speed, time)
        target == IF out THEN q.depth - q.stroke ELSE q.depth
    IN  [q EXCEPT !.nextMove = [@ EXCEPT !.speed = speed, !.acceleration = acc,
                                         !.stroke = target],
                  !.index = index]

(***************************************************************************)
(* class RoboStroke                                                        *)
(***************************************************************************)
RoboStroke_new(s, d, t) == Pattern(s, d, t) @@ [x |-> R(1, 3)]

RoboStroke_setTimeOfStroke(q, speed) == HalfTime(q, speed)

RoboStroke_setSensation(q, sensation) ==
    [q EXCEPT !.sensation = sensation,
              !.x = IF sensation >= 0
                    THEN fscale(I2R(0), I2R(100), R(1, 3), R(1, 2), I2R(sensation))
                    ELSE fscale(I2R(0), I2R(100), R(1, 3), R(1, 20), I2R(-sensation))]

\* RoboStroke::nextTarget with x and 1 - x exchanged
RoboStroke_nextTarget_swapped(q, index) ==
    LET speed == RDiv(I2R(q.stroke), RMul(q.x, q.timeOfStroke))
        acc == RInt(RDiv(speed, RMul(RSub(I2R(1), q.x), q.timeOfStroke)))
        target == IF index % 2 = 1 THEN q.depth - q.stroke ELSE q.depth
    IN  [q EXCEPT !.nextMove = [@ EXCEPT !.speed = RInt(speed), !.acceleration = acc,
                                         !.stroke = target],
                  !.index = index]

RoboStroke_nextTarget(q, index) ==
    LET speed == RDiv(I2R(q.stroke), RMul(RSub(I2R(1), q.x), q.timeOfStroke))
        acc == RInt(RDiv(speed, RMul(q.x, q.timeOfStroke)))
        target == IF index % 2 = 1 THEN q.depth - q.stroke ELSE q.depth
    IN  [q EXCEPT !.nextMove = [@ EXCEPT !.speed = RInt(speed), !.acceleration = acc,
                                         !.stroke = target],
                  !.index = index]

(***************************************************************************)
(* class HalfnHalf                                                         *)
(***************************************************************************)
HalfnHalf_new(s, d, t) ==
    Pattern(s, d, t) @@
    [timeOfFastStroke |-> I2R(1), timeOfInStroke |-> I2R(1), timeOfOutStroke |-> I2R(1),
     half |-> TRUE]

HalfnHalf_setSensation(q, sensation) ==
    updateStrokeTiming([q EXCEPT !.sensation = sensation])

HalfnHalf_setTimeOfStroke(q, speed) ==
    updateStrokeTiming([q EXCEPT !.timeOfStroke = speed])

\* HalfnHalf::nextTarget toggling the half-flag on every call
HalfnHalf_nextTarget_everyCall(q, index) ==
    LET half == IF index = 0 THEN TRUE ELSE q.half
        stroke == IF half THEN q.stroke \div 2 ELSE q.stroke
        out == index % 2 = 1
        time == IF out THEN q.timeOfOutStroke ELSE q.timeOfInStroke
        speed == TrapezSpeed(stroke, time)
        acc == TrapezAccel(speed, time)
        target == IF out THEN q.depth - q.stroke ELSE (q.depth - q.stroke) + stroke
    IN  [q EXCEPT !.nextMove = [@ EXCEPT !.speed = speed, !.acceleration = acc,
                                         !.stroke = target],
                  !.half = ~half,
                  !.index = index]

HalfnHalf_nextTarget(q, index) ==
    LET half == IF index = 0 THEN TRUE ELSE q.half
        stroke == IF half THEN q.stroke \div 2 ELSE q.stroke
        out == index % 2 = 1
        time == IF out THEN q.timeOfOutStroke ELSE q.timeOfInStroke
        speed == TrapezSpeed(stroke, time)
        acc == TrapezAccel(speed, time)
        target == IF out THEN q.depth - q.stroke ELSE (q.depth - q.stroke) + stroke
    IN  [q EXCEPT !.nextMove = [@ EXCEPT !.speed = speed, !.acceleration = acc,
                                         !.stroke = target],
                  !.half = IF out THEN ~half ELSE half,
                  !.index = index]

(***************************************************************************)
(* class Deeper                                                            *)
(***************************************************************************)
Deeper_new(s, d, t) == Pattern(s, d, t) @@ [countStrokesForRamp |-> 2]

Deeper_setTimeOfStroke(q, speed) == HalfTime(q, speed)

Deeper_setSensation(q, sensation) ==
    [q EXCEPT !.sensation = sensation,
              !.countStrokesForRamp = IF sensation < 0
                                      THEN map(sensation, -100, 0, 2, 11)
                                      ELSE map(sensation, 0, 100, 11, 32)]

Deeper_nextTarget(q, index) ==
    LET slope == q.stroke \div q.countStrokesForRamp
        cycleIndex == ((index \div 2) % q.countStrokesForRamp) + 1
        amplitude == slope * cycleIndex
        speed == TrapezSpeed(amplitude, q.timeOfStroke)
        acc == TrapezAccel(speed, q.timeOfStroke)
        target == IF index % 2 = 1 THEN q.depth - q.stroke
                  ELSE (q.depth - q.stroke) + amplitude
    IN  [q EXCEPT !.nextMove = [@ EXCEPT !.speed = speed, !.acceleration = acc,
                                         !.stroke = target],
                  !.index = index]

(***************************************************************************)
(* class StopNGo                                                           *)
(***************************************************************************)
StopNGo_new(s, d, t) ==
    Pattern(s, d, t) @@
    [numberOfStrokes |-> 5, strokeSeriesIndex |-> 1, strokeIndex |-> 0,
     countStrokesUp |-> TRUE]

StopNGo_setTimeOfStroke(q, speed) == HalfTime(q, speed)

\* StopNGo::setSensation with the output range of map() the other way round
StopNGo_setSensation_swapped(q, sensation) ==
    updateDelay([q EXCEPT !.sensation = sensation], map(sensation, -100, 100, 10000, 100))

StopNGo_setSensation(q, sensation) ==
    updateDelay([q EXCEPT !.sensation = sensation], map(sensation, -100, 100, 100, 10000))

\* the series bookkeeping turning around one series late (> for >=)
StopNGo_endSeries_late(q, t) ==
    LET up == IF q.strokeSeriesIndex <= 1 THEN TRUE
              ELSE IF q.strokeSeriesIndex > q.numberOfStrokes THEN FALSE
              ELSE q.countStrokesUp
    IN  startDelay([q EXCEPT !.strokeIndex = 0,
                             !.countStrokesUp = up,
                             !.strokeSeriesIndex = IF up THEN @ + 1 ELSE @ - 1], t)

\* the bookkeeping of an outward stroke that ends a series (lines 517-542)
StopNGo_endSeries(q, t) ==
    LET up == IF q.strokeSeriesIndex <= 1 THEN TRUE
              ELSE IF q.strokeSeriesIndex >= q.numberOfStrokes THEN FALSE
              ELSE q.countStrokesUp
    IN  startDelay([q EXCEPT !.strokeIndex = 0,
                             !.countStrokesUp = up,
                             !.strokeSeriesIndex = IF up THEN @ + 1 ELSE @ - 1], t)

StopNGo_move(q, index, t) ==
    IF index % 2 = 1
    THEN LET r == [q EXCEPT !.nextMove.stroke = q.depth - q.stroke]
         IN  IF q.strokeIndex >= q.strokeSeriesIndex THEN StopNGo_endSeries(r, t) ELSE r
    ELSE [q EXCEPT !.nextMove.stroke = q.depth, !.strokeIndex = @ + 1]

\* StopNGo::nextTarget with the stroke bookkeeping outside the gate test
StopNGo_nextTarget_ungated(q, index, t) ==
    LET speed == TrapezSpeed(q.stroke, q.timeOfStroke)
        acc == TrapezAccel(speed, q.timeOfStroke)
        r == [q EXCEPT !.nextMove.speed = speed, !.nextMove.acceleration = acc]
        m == [StopNGo_move(r, index, t) EXCEPT !.nextMove.skip = isStillDelayed(r, t)]
    IN  [m EXCEPT !.index = index]

StopNGo_nextTarget(q, index, t) ==
    LET speed == TrapezSpeed(q.stroke, q.timeOfStroke)
        acc == TrapezAccel(speed, q.timeOfStroke)
        r == [q EXCEPT !.nextMove.speed = speed, !.nextMove.acceleration = acc]
        m == IF ~isStillDelayed(r, t)
             THEN [StopNGo_move(r, index, t) EXCEPT !.nextMove.skip = FALSE]
             ELSE [r EXCEPT !.nextMove.skip = TRUE]
    IN  [m EXCEPT !.index = index]

(***************************************************************************)
(* class Insist                                                            *)
(***************************************************************************)
Insist_new(s, d, t) ==
    Pattern(s, d, t) @@
    [speed |-> 0, acceleration |-> 0, realStroke |-> 0, strokeFraction |-> I2R(1),
     strokeInFront |-> FALSE]

\* _updateStrokeTiming; u is what int() yields for the quotient by zero that
\* _strokeFraction = 0 produces (the conversion is undefined there)
Insist_updateStrokeTiming(q, u) ==
    LET den == RMul(q.timeOfStroke, q.strokeFraction)
    IN  [q EXCEPT !.speed = TrapezSpeed(q.stroke, q.timeOfStroke),
                  !.acceleration = IF den[1] = 0 THEN u
                                   ELSE RInt(RDiv(RMul(I2R(3), I2R(q.nextMove.speed)), den)),
                  !.realStroke = RInt(RMul(I2R(q.stroke), q.strokeFraction))]

\* Insist::setSensation without the abs() in the stroke fraction
Insist_setSensation_signed(q, sensation, u) ==
    Insist_updateStrokeTiming(
        [q EXCEPT !.sensation = sensation,
                  !.strokeFraction = R(100 - sensation, 100),
                  !.strokeInFront = sensation > 0], u)

Insist_setSensation(q, sensation, u) ==
    Insist_updateStrokeTiming(
        [q EXCEPT !.sensation = sensation,
                  !.strokeFraction = R(100 - Abs(sensation), 100),
                  !.strokeInFront = sensation > 0], u)

Insist_setTimeOfStroke(q, speed, u) == Insist_updateStrokeTiming(HalfTime(q, speed), u)

Insist_setStroke(q, stroke, u) ==
    Insist_updateStrokeTiming([q EXCEPT !.stroke = stroke], u)

Insist_nextTarget(q, index) ==
    LET out == index % 2 = 1
        target == IF q.strokeInFront
                  THEN IF out THEN q.depth - q.realStroke ELSE q.depth
                  ELSE IF out THEN q.depth - q.stroke
                       ELSE (q.depth - q.stroke) + q.realStroke
    IN  [q EXCEPT !.nextMove = [@ EXCEPT !.acceleration = q.acceleration,
                                         !.speed = q.speed, !.stroke = target],
                  !.index = index]

(***************************************************************************)
(* Helpers shared by Slammin and Knot (the same expressions in both)       *)
(***************************************************************************)
\* int(baseSpeed * sensationFactor * strokeScale) with
\* strokeScale = (_stroke > 0) ? sqrt((float)_stroke / 1000.0) + 0.5 : 1.0
ScaledSpeed(baseSpeed, sensationFactor, stroke) ==
    IF stroke > 0
    THEN FloorScaled(RMul(baseSpeed, sensationFactor), R(stroke, 1000), R(1, 2))
    ELSE RInt(RMul(baseSpeed, sensationFactor))

\* int((sqrt((350000 * _speed) + 60000)) + pad)
SpeedDelay(speed, pad) == ISqrt(RInt(RAdd(RMul(I2R(350000), speed), I2R(60000)))) + pad

(***************************************************************************)
(* class Slammin                                                           *)
(***************************************************************************)
Slammin_new(s, d, t) == Pattern(s, d, t) @@ [speed |-> I2R(1), outStrokeSpeed |-> 0]

\* _updateOutStrokeSpeed without the clamp to the minimum of 100
Slammin_updateOutStrokeSpeed_unclamped(q) ==
    LET sensationFactor ==
            fscale(I2R(-100), I2R(100), I2R(1), R(3, 10), I2R(q.sensation))
        baseSpeed == RDiv(RMul(R(3, 2), I2R(q.stroke)), q.timeOfStroke)
    IN  [q EXCEPT !.outStrokeSpeed = ScaledSpeed(baseSpeed, sensationFactor, q.stroke)]

Slammin_updateOutStrokeSpeed(q) ==
    LET sensationFactor ==
            fscale(I2R(-100), I2R(100), I2R(1), R(3, 10), I2R(q.sensation))
        baseSpeed == RDiv(RMul(R(3, 2), I2R(q.stroke)), q.timeOfStroke)
        v == ScaledSpeed(baseSpeed, sensationFactor, q.stroke)
    IN  [q EXCEPT !.outStrokeSpeed = IF v < 100 THEN 100 ELSE v]

Slammin_setTimeOfStroke(q, speed) ==
    Slammin_updateOutStrokeSpeed([HalfTime(q, speed) EXCEPT !.speed = speed])

Slammin_setSensation(q, sensation) ==
    Slammin_updateOutStrokeSpeed([q EXCEPT !.sensation = sensation])

Slammin_setStroke(q, stroke) == Slammin_updateOutStrokeSpeed([q EXCEPT !.stroke = stroke])

\* the branch of Slammin::nextTarget with the pause armed after either stroke
Slammin_move_armBoth(q, index, t) ==
    IF index % 2 = 1
    THEN LET speed == q.outStrokeSpeed
         IN  startDelay(
                 [q EXCEPT !.nextMove.speed = speed,
                           !.nextMove.acceleration =
                               RInt(RDiv(RMul(R(11, 10), I2R(speed)), q.timeOfStroke)),
                           !.nextMove.stroke = q.depth - q.stroke], t)
    ELSE LET speed == RInt(RDiv(RMul(R(16, 10), I2R(q.stroke)), q.timeOfStroke))
         IN  startDelay(
                 [q EXCEPT !.nextMove.speed = speed,
                           !.nextMove.acceleration =
                               RInt(RDiv(RMul(R(28, 10), I2R(speed)), q.timeOfStroke)),
                           !.nextMove.stroke = q.depth], t)

Slammin_move(q, index, t) ==
    IF index % 2 = 1
    THEN LET speed == q.outStrokeSpeed
         IN  [q EXCEPT !.nextMove.speed = speed,
                       !.nextMove.acceleration =
                           RInt(RDiv(RMul(R(11, 10), I2R(speed)), q.timeOfStroke)),
                       !.nextMove.stroke = q.depth - q.stroke]
    ELSE LET speed == RInt(RDiv(RMul(R(16, 10), I2R(q.stroke)), q.timeOfStroke))
         IN  startDelay(
                 [q EXCEPT !.nextMove.speed = speed,
                           !.nextMove.acceleration =
                               RInt(RDiv(RMul(R(28, 10), I2R(speed)), q.timeOfStroke)),
                           !.nextMove.stroke = q.depth], t)

Slammin_nextTarget(q, index, t) ==
    LET r == updateDelay(q, SpeedDelay(q.speed, 125))
        m == IF ~isStillDelayed(r, t)
             THEN [Slammin_move(r, index, t) EXCEPT !.nextMove.skip = FALSE]
             ELSE [r EXCEPT !.nextMove.skip = TRUE]
    IN  [m EXCEPT !.index = index]

(***************************************************************************)
(* class Knot                                                              *)
(***************************************************************************)
Knot_new(s, d, t) == Pattern(s, d, t) @@ [speed |-> I2R(1), slowSpeed |-> 0]

Knot_updateSlowSpeed(q) ==
    LET sensationFactor ==
            fscale(I2R(0), I2R(100), R(1, 2), R(1, 20), I2R(Abs(q.sensation)))
        baseSpeed == RDiv(I2R(q.stroke), q.timeOfStroke)
        v == ScaledSpeed(baseSpeed, sensationFactor, q.stroke)
    IN  [q EXCEPT !.slowSpeed = IF v < 50 THEN 50 ELSE v]

Knot_setTimeOfStroke(q, speed) ==
    Knot_updateSlowSpeed([HalfTime(q, speed) EXCEPT !.speed = speed])

Knot_setSensation(q, sensation) == Knot_updateSlowSpeed([q EXCEPT !.sensation = sensation])

Knot_setStroke(q, stroke) == Knot_updateSlowSpeed([q EXCEPT !.stroke = stroke])

\* the default acceleration of line 781 whatever the factor of the phase
Knot_accel_default(q, k) == RInt(RDiv(RMul(I2R(3), I2R(q.nextMove.speed)), q.timeOfStroke))

\* int(k * _nextMove.speed / _timeOfStroke), from the speed the last call stored
Knot_accel(q, k) == RInt(RDiv(RMul(k, I2R(q.nextMove.speed)), q.timeOfStroke))

\* the phase taken modulo 4
Knot_phase_mod4(index) == index % 4

\* the phase the switch statement selects
Knot_phase(index) == index % 5

\* Knot's switch statement with the pause phases aiming at the current depth
Knot_move_retarget(q, index, t) ==
    LET phase == Knot_phase(index)
    IN  CASE phase = 0 ->
                [q EXCEPT !.nextMove.acceleration = Knot_accel(q, I2R(2)),
                          !.nextMove.speed = RInt(RDiv(I2R(q.stroke), q.timeOfStroke)),
                          !.nextMove.stroke = q.depth - q.stroke]
          [] phase = 1 ->
                [q EXCEPT !.nextMove.acceleration = Knot_accel(q, I2R(2)),
                          !.nextMove.speed =
                              RInt(RDiv(RMul(R(8, 10), I2R(q.stroke)), q.timeOfStroke)),
                          !.nextMove.stroke =
                              RInt(RAdd(I2R(q.depth - q.stroke),
                                        RMul(I2R(q.stroke), R(70, 100))))]
          [] phase = 3 ->
                [q EXCEPT !.nextMove.acceleration = Knot_accel(q, R(23, 10)),
                          !.nextMove.speed = q.slowSpeed,
                          !.nextMove.stroke = q.depth]
          [] OTHER -> startDelay([q EXCEPT !.nextMove.stroke = q.depth], t)

Knot_move(q, index, t) ==
    LET phase == Knot_phase(index)
    IN  CASE phase = 0 ->
                [q EXCEPT !.nextMove.acceleration = Knot_accel(q, I2R(2)),
                          !.nextMove.speed = RInt(RDiv(I2R(q.stroke), q.timeOfStroke)),
                          !.nextMove.stroke = q.depth - q.stroke]
          [] phase = 1 ->
                [q EXCEPT !.nextMove.acceleration = Knot_accel(q, I2R(2)),
                          !.nextMove.speed =
                              RInt(RDiv(RMul(R(8, 10), I2R(q.stroke)), q.timeOfStroke)),
                          !.nextMove.stroke =
                              RInt(RAdd(I2R(q.depth - q.stroke),
                                        RMul(I2R(q.stroke), R(70, 100))))]
          [] phase = 3 ->
                [q EXCEPT !.nextMove.acceleration = Knot_accel(q, R(23, 10)),
                          !.nextMove.speed = q.slowSpeed,
                          !.nextMove.stroke = q.depth]
          [] OTHER -> startDelay(q, t)

\* Knot::nextTarget with the switch statement outside the gate test
Knot_nextTarget_ungated(q, index, t) ==
    LET a == [q EXCEPT !.nextMove.acceleration = Knot_accel(q, I2R(3))]
        r == updateDelay(a, SpeedDelay(q.speed, 550))
        m == [Knot_move(r, index, t) EXCEPT !.nextMove.skip = isStillDelayed(r, t)]
    IN  [m EXCEPT !.index = index]

Knot_nextTarget(q, index, t) ==
    LET a == [q EXCEPT !.nextMove.acceleration = Knot_accel(q, I2R(3))]
        r == updateDelay(a, SpeedDelay(q.speed, 550))
        m == IF ~isStillDelayed(r, t)
             THEN [Knot_move(r, index, t) EXCEPT !.nextMove.skip = FALSE]
             ELSE [r EXCEPT !.nextMove.skip = TRUE]
    IN  [m EXCEPT !.index = index]

(***************************************************************************)
(* Virtual dispatch                                                        *)
(***************************************************************************)
Gated == {"StopNGo", "Slammin", "Knot"}

new(v, s, d, t) ==
    CASE v = "SimpleStroke" -> SimpleStroke_new(s, d, t)
      [] v = "TeasingPounding" -> TeasingPounding_new(s, d, t)
      [] v = "RoboStroke" -> RoboStroke_new(s, d, t)
      [] v = "HalfnHalf" -> HalfnHalf_new(s, d, t)
      [] v = "Deeper" -> Deeper_new(s, d, t)
      [] v = "StopNGo" -> StopNGo_new(s, d, t)
      [] v = "Insist" -> Insist_new(s, d, t)
      [] v = "Slammin" -> Slammin_new(s, d, t)
      [] v = "Knot" -> Knot_new(s, d, t)

setTimeOfStroke(v, q, speed, u) ==
    CASE v = "SimpleStroke" -> SimpleStroke_setTimeOfStroke(q, speed)
      [] v = "TeasingPounding" -> TeasingPounding_setTimeOfStroke(q, speed)
      [] v = "RoboStroke" -> RoboStroke_setTimeOfStroke(q, speed)
      [] v = "HalfnHalf" -> HalfnHalf_setTimeOfStroke(q, speed)
      [] v = "Deeper" -> Deeper_setTimeOfStroke(q, speed)
      [] v = "StopNGo" -> StopNGo_setTimeOfStroke(q, speed)
      [] v = "Insist" -> Insist_setTimeOfStroke(q, speed, u)
      [] v = "Slammin" -> Slammin_setTimeOfStroke(q, speed)
      [] v = "Knot" -> Knot_setTimeOfStroke(q, speed)

setStroke(v, q, stroke, u) ==
    CASE v = "Insist" -> Insist_setStroke(q, stroke, u)
      [] v = "Slammin" -> Slammin_setStroke(q, stroke)
      [] v = "Knot" -> Knot_setStroke(q, stroke)
      [] OTHER -> Pattern_setStroke(q, stroke)

setDepth(v, q, depth) == Pattern_setDepth(q, depth)

\* no class overrides setSpeedLimit
setSpeedLimit(v, q, maxSpeed, maxAcceleration, stepsPerMM) ==
    Pattern_setSpeedLimit(q, maxSpeed, maxAcceleration, stepsPerMM)

setSensation(v, q, sensation, u) ==
    CASE v = "TeasingPounding" -> TeasingPounding_setSensation(q, sensation)
      [] v = "RoboStroke" -> RoboStroke_setSensation(q, sensation)
      [] v = "HalfnHalf" -> HalfnHalf_setSensation(q, sensation)
      [] v = "Deeper" -> Deeper_setSensation(q, sensation)
      [] v = "StopNGo" -> StopNGo_setSensation(q, sensation)
      [] v = "Insist" -> Insist_setSensation(q, sensation, u)
      [] v = "Slammin" -> Slammin_setSensation(q, sensation)
      [] v = "Knot" -> Knot_setSensation(q, sensation)
      [] OTHER -> Pattern_setSensation(q, sensation)

nextTarget(v, q, index, t) ==
    CASE v = "SimpleStroke" -> SimpleStroke_nextTarget(q, index)
      [] v = "TeasingPounding" -> TeasingPounding_nextTarget(q, index)
      [] v = "RoboStroke" -> RoboStroke_nextTarget(q, index)
      [] v = "HalfnHalf" -> HalfnHalf_nextTarget(q, index)
      [] v = "Deeper" -> Deeper_nextTarget(q, index)
      [] v = "StopNGo" -> StopNGo_nextTarget(q, index, t)
      [] v = "Insist" -> Insist_nextTarget(q, index)
      [] v = "Slammin" -> Slammin_nextTarget(q, index, t)
      [] v = "Knot" -> Knot_nextTarget(q, index, t)

\* what _isStillDelayed() returns inside nextTarget at time t (Slammin and Knot
\* set the delay first); patterns without a gate never ask
Pending(v, q, t) ==
    CASE v = "StopNGo" -> isStillDelayed(q, t)
      [] v = "Slammin" -> isStillDelayed(updateDelay(q, SpeedDelay(q.speed, 125)), t)
      [] v = "Knot" -> isStillDelayed(updateDelay(q, SpeedDelay(q.speed, 550)), t)
      [] OTHER -> FALSE

(***************************************************************************)
(* The caller: configuration values and the operations                     *)
(***************************************************************************)
Strokes == {7, 1000}
Depths == {1000, 1500}
Times == {R(1, 2), I2R(2)}
Sensations == {-100, 0, 100}
ClockSteps == {1500}

\* values the fields without initialiser may hold after construction
IndetStrokes == {0, 1000}
IndetTimes == {I2R(1)}

\* what int() may yield where the conversion is undefined
UndefInts == {0, 2147483647, -2147483647}
Undef(v) == IF v = "Insist" THEN UndefInts ELSE {0}

Configured == {"stroke", "depth", "time"} \subseteq called

\* the last operation: its kind and, for nextTarget, what _isStillDelayed()
\* returned in it (the index it was passed is p.index)
Op(kind, pending) == [kind |-> kind, pending |-> pending]

NoHistory == [strokesIn |-> 0, arms |-> 0, lastSeries |-> 0, lastIn |-> 0, extra |-> 0]

InitOf(V) ==
    /\ pat \in V
    /\ \E s \in IndetStrokes, t \in IndetTimes : p = new(pat, s, s, t)
    /\ now = 0
    /\ idx = 0
    /\ proto = TRUE
    /\ called = {}
    /\ cycleTime = I2R(0)
    /\ op = Op("new", FALSE)
    /\ g = NoHistory

\* setter calls after the first nextTarget call and nextTarget calls outside the
\* protocol are counted together, up to max
Reconf(max) ==
    IF p.index = -1 THEN g' = g
    ELSE g.extra < max /\ g' = [g EXCEPT !.extra = @ + 1]

SetTimeOfStroke(speed, max) ==
    /\ Reconf(max)
    /\ \E u \in Undef(pat) : p' = setTimeOfStroke(pat, p, speed, u)
    /\ cycleTime' = speed
    /\ called' = called \cup {"time"}
    /\ op' = Op("set", FALSE)
    /\ UNCHANGED <<pat, now, idx, proto>>

SetStroke(stroke, max) ==
    /\ Reconf(max)
    /\ "depth" \in called => stroke <= p.depth
    /\ \E u \in Undef(pat) : p' = setStroke(pat, p, stroke, u)
    /\ called' = called \cup {"stroke"}
    /\ op' = Op("set", FALSE)
    /\ UNCHANGED <<pat, now, idx, proto, cycleTime>>

SetDepth(depth, max) ==
    /\ Reconf(max)
    /\ "stroke" \in called => p.stroke <= depth
    /\ p' = setDepth(pat, p, depth)
    /\ called' = called \cup {"depth"}
    /\ op' = Op("set", FALSE)
    /\ UNCHANGED <<pat, now, idx, proto, cycleTime>>

SetSensation(sensation, max) ==
    /\ Reconf(max)
    /\ \E u \in Undef(pat) : p' = setSensation(pat, p, sensation, u)
    /\ called' = called \cup {"sensation"}
    /\ op' = Op("set", FALSE)
    /\ UNCHANGED <<pat, now, idx, proto, cycleTime>>

\* the history of a call that follows the protocol: inward strokes since the
\* gate was last armed, the number of times it was armed (1..8, then 1 again),
\* the inward strokes of the series the last arming closed, and the target of
\* the last inward stroke
History(q, r, index) ==
    LET done == ~r.nextMove.skip
        inward == done /\ index % 2 = 0
        in == IF inward THEN g.strokesIn + 1 ELSE g.strokesIn
        h == [g EXCEPT !.lastIn = IF inward THEN r.nextMove.stroke ELSE @]
    IN  IF r.startDelayMillis # q.startDelayMillis
        THEN [h EXCEPT !.strokesIn = 0, !.arms = (@ % 8) + 1, !.lastSeries = in]
        ELSE [h EXCEPT !.strokesIn = in]

\* nextTarget(idx) by a caller that advances the index after a non-skipped call
NextTargetSeq(max) ==
    /\ Configured
    /\ proto
    /\ idx <= max
    /\ p' = nextTarget(pat, p, idx, now)
    /\ idx' = IF p'.nextMove.skip THEN idx ELSE idx + 1
    /\ op' = Op("next", Pending(pat, p, now))
    /\ g' = History(p, p', idx)
    /\ UNCHANGED <<pat, now, proto, called, cycleTime>>

\* nextTarget(index) with an index outside the protocol
NextTargetAny(index, max) ==
    /\ Configured
    /\ ~(proto /\ index = idx)
    /\ g.extra < max
    /\ pat = "StopNGo" => p.strokeIndex < MaxStrokeIndex
    /\ p' = nextTarget(pat, p, index, now)
    /\ proto' = FALSE
    /\ op' = Op("next", Pending(pat, p, now))
    /\ g' = [g EXCEPT !.extra = @ + 1]
    /\ UNCHANGED <<pat, now, idx, called, cycleTime>>

\* millis() advances
Tick(d, max) ==
    /\ pat \in Gated
    /\ now + d <= max
    /\ now' = now + d
    /\ op' = Op("tick", FALSE)
    /\ UNCHANGED <<pat, p, idx, proto, called, cycleTime, g>>

Next ==
    \/ \E t \in Times : SetTimeOfStroke(t, MaxExtra)
    \/ \E s \in Strokes : SetStroke(s, MaxExtra)
    \/ \E d \in Depths : SetDepth(d, MaxExtra)
    \/ \E s \in Sensations : SetSensation(s, MaxExtra)
    \/ NextTargetSeq(MaxIndex)
    \/ \E i \in 0..MaxIndex : NextTargetAny(i, MaxExtra)
    \/ \E d \in ClockSteps : Tick(d, MaxClock)

Init == InitOf(Variants)

\* all nine variants
Spec == Init /\ [][Next]_vars

(***************************************************************************)
(* The four variants with a symmetric or skewed trapezoid and no gate,     *)
(* over a wider range of configurations                                    *)
(***************************************************************************)
Plain == {"SimpleStroke", "TeasingPounding", "RoboStroke", "HalfnHalf"}
PlainStrokes == {0, 1, 7, 1000}
PlainTimes == {R(1, 2), I2R(2), I2R(3)}
PlainSensations == {-100, -50, 0, 50, 100}

InitPlain == InitOf(Plain)

NextPlain ==
    \/ \E t \in PlainTimes : SetTimeOfStroke(t, MaxExtra)
    \/ \E s \in PlainStrokes : SetStroke(s, MaxExtra)
    \/ \E d \in Depths : SetDepth(d, MaxExtra)
    \/ \E s \in PlainSensations : SetSensation(s, MaxExtra)
    \/ NextTargetSeq(MaxIndex)
    \/ \E i \in 0..MaxIndex : NextTargetAny(i, MaxExtra)

SpecPlain == InitPlain /\ [][NextPlain]_vars

(***************************************************************************)
(* StopNGo over a long run of the protocol                                 *)
(***************************************************************************)
LongSensations == {-100, -50, 30, 100}
LongClockSteps == {101}

InitStopNGo == InitOf({"StopNGo"})

NextStopNGo ==
    \/ SetTimeOfStroke(I2R(2), MaxExtra)
    \/ SetStroke(1000, MaxExtra)
    \/ SetDepth(1000, MaxExtra)
    \/ \E s \in LongSensations : SetSensation(s, MaxExtra)
    \/ NextTargetSeq(MaxIndexLong)
    \/ \E i \in 0..3 : NextTargetAny(i, MaxExtra)
    \/ \E d \in LongClockSteps : Tick(d, MaxClockLong)

SpecStopNGo == InitStopNGo /\ [][NextStopNGo]_vars

(***************************************************************************)
(* Knot called with arbitrary indices                                      *)
(***************************************************************************)
InitKnot == InitOf({"Knot"})

NextKnot ==
    \/ SetTimeOfStroke(I2R(2), MaxExtra)
    \/ \E s \in Strokes : SetStroke(s, MaxExtra)
    \/ SetDepth(1000, MaxExtra)
    \/ \E s \in {0, 100} : SetSensation(s, MaxExtra)
    \/ NextTargetSeq(MaxIndexKnot)
    \/ \E i \in 0..MaxIndexKnot : NextTargetAny(i, MaxCallsKnot)
    \/ \E d \in ClockSteps : Tick(d, MaxClock)

SpecKnot == InitKnot /\ [][NextKnot]_vars

(***************************************************************************)
(* Deeper over more than one ramp                                          *)
(***************************************************************************)
InitDeeper == InitOf({"Deeper"})

NextDeeper ==
    \/ \E t \in Times : SetTimeOfStroke(t, MaxExtra)
    \/ \E s \in Strokes : SetStroke(s, MaxExtra)
    \/ \E d \in Depths : SetDepth(d, MaxExtra)
    \/ \E s \in {-100, 0, 100} : SetSensation(s, MaxExtra)
    \/ NextTargetSeq(MaxIndexRamp)
    \/ \E i \in 0..MaxIndex : NextTargetAny(i, MaxExtra)

SpecDeeper == InitDeeper /\ [][NextDeeper]_vars

(***************************************************************************)
(* Properties                                                              *)
(***************************************************************************)
\* the last operation was a nextTarget call that returned skip = false
Returned == op.kind = "next" /\ ~p.nextMove.skip

\* C1: for every one of the nine variants, a command returned with skip = false
\* by a call that follows the protocol (index 0, 1, 2, ... advanced after each
\* non-skipped call), under any interleaving of setter calls that keep the
\* configuration valid, has its targetPosition in [depth - stroke, depth] for
\* the stroke and depth in effect at that call.
C1_TargetInRange ==
    (Returned /\ proto) =>
        (p.depth - p.stroke <= p.nextMove.stroke /\ p.nextMove.stroke <= p.depth)

\* the retracted end of the excursion of a variant other than Knot
OutwardTarget(v, q) ==
    IF v = "Insist" /\ q.strokeInFront THEN q.depth - q.realStroke
    ELSE q.depth - q.stroke

\* the inserted end of the excursion of a variant other than Knot, at index
InwardTarget(v, q, index) ==
    CASE v = "HalfnHalf" ->
            (q.depth - q.stroke) + (IF q.half THEN q.stroke \div 2 ELSE q.stroke)
      [] v = "Deeper" ->
            (q.depth - q.stroke)
                + (q.stroke \div q.countStrokesForRamp)
                    * (((index \div 2) % q.countStrokesForRamp) + 1)
      [] v = "Insist" ->
            IF q.strokeInFront THEN q.depth ELSE (q.depth - q.stroke) + q.realStroke
      [] OTHER -> q.depth

\* the targets of Knot's two inward moves (phases 1 and 3)
KnotInwardTargets(q) == {(q.depth - q.stroke) + (7 * q.stroke) \div 10, q.depth}

\* C2 (amended): for the eight variants other than Knot, every non-skipped
\* nextTarget(index) call with an even index returns the variant's inward
\* target and every non-skipped call with an odd index its outward target,
\* for every index and on every repetition.
C2_ParityExceptKnot ==
    (Returned /\ pat # "Knot") =>
        p.nextMove.stroke = IF p.index % 2 = 0 THEN InwardTarget(pat, p, p.index)
                            ELSE OutwardTarget(pat, p)

\* C2 as stated: the parity convention holds for all nine variants, Knot included.
C2_ParityAllVariants ==
    /\ C2_ParityExceptKnot
    /\ (Returned /\ pat = "Knot") =>
            IF p.index % 2 = 0 THEN p.nextMove.stroke \in KnotInwardTargets(p)
            ELSE p.nextMove.stroke = p.depth - p.stroke

\* C2 witness: a gated variant returns an outward command at an odd index
\* outside the protocol, to a target different from the inward one.
C2_Witness ==
    /\ Returned /\ ~proto /\ pat = "StopNGo"
    /\ p.index = 3 /\ p.stroke > 0
    /\ p.nextMove.stroke = p.depth - p.stroke

\* the series lengths between consecutive armed pauses, by arming number
TriSeq == <<1, 2, 3, 4, 5, 4, 3, 2>>

\* C3: StopNGo driven by the protocol: the number of inward strokes performed
\* between two consecutive armed pauses follows 1,2,3,4,5,4,3,2,1,2,3,...,
\* repeating with period 8.
C3_TriangularSeries ==
    (pat = "StopNGo" /\ proto /\ g.arms > 0) => g.lastSeries = TriSeq[g.arms]

\* C3 witness: the second series of the second period has been closed.
C3_Witness ==
    pat = "StopNGo" /\ proto /\ idx > 50 /\ g.arms = 2 /\ g.lastSeries = 2

\* C4: every StopNGo nextTarget call made while the gate is pending returns
\* skip = true and leaves _strokeIndex, _strokeSeriesIndex, _countStrokesUp,
\* the gate start time and the stored targetPosition unchanged, whatever index
\* is passed.
C4_PendingCallFrame ==
    [][(pat = "StopNGo" /\ op'.kind = "next" /\ op'.pending) =>
            /\ p'.nextMove.skip
            /\ p'.strokeIndex = p.strokeIndex
            /\ p'.strokeSeriesIndex = p.strokeSeriesIndex
            /\ p'.countStrokesUp = p.countStrokesUp
            /\ p'.startDelayMillis = p.startDelayMillis
            /\ p'.nextMove.stroke = p.nextMove.stroke]_vars

\* C4 witness: a call outside the protocol was skipped during a pause that an
\* earlier outward stroke armed.
C4_Witness ==
    /\ pat = "StopNGo" /\ op.kind = "next" /\ op.pending /\ ~proto
    /\ p.nextMove.skip /\ p.startDelayMillis > 0 /\ p.strokeSeriesIndex = 3

About(x, y) == 10 * Abs(x - y) <= y

\* C5 (amended): the pause length StopNGo::setSensation sets is 100 ms for
\* sensation = -100 and 10000 ms for sensation = 100, and lies in
\* [100, 10000] ms for every sensation in [-100, 100].
C5_PauseBySensation ==
    (pat = "StopNGo" /\ "sensation" \in called) =>
        /\ 100 <= p.delayInMillis /\ p.delayInMillis <= 10000
        /\ p.sensation = -100 => p.delayInMillis = 100
        /\ p.sensation = 100 => p.delayInMillis = 10000

\* C5 as stated: about 100 ms for sensation = 100 and about 10000 ms for
\* sensation = -100.
C5_AsStated ==
    (pat = "StopNGo" /\ "sensation" \in called) =>
        /\ 100 <= p.delayInMillis /\ p.delayInMillis <= 10000
        /\ p.sensation = 100 => About(p.delayInMillis, 100)
        /\ p.sensation = -100 => About(p.delayInMillis, 10000)

\* C5 witness: a pause is pending whose length setSensation(100) set.
C5_Witness ==
    /\ pat = "StopNGo" /\ "sensation" \in called /\ p.sensation = 100
    /\ p.delayInMillis = 10000 /\ op.kind = "next" /\ op.pending

\* the command a SimpleStroke instance configured with stroke, depth and the
\* cycle time cyc returns for index
SimpleCmd(stroke, depth, cyc, index) ==
    SimpleStroke_nextTarget(
        SimpleStroke_setTimeOfStroke(SimpleStroke_new(stroke, depth, cyc), cyc),
        index).nextMove

\* the half-flag the last HalfnHalf call computed its stroke length from
UsedHalf == IF p.index % 2 = 1 THEN ~p.half ELSE p.half

\* C6 (amended): with identical stroke, depth and cycleTime and sensation = 0,
\* TeasingPounding returns the same command as SimpleStroke for every index;
\* HalfnHalf returns it on the calls made with its half-flag false (under the
\* protocol the pairs with index mod 4 in {2, 3}) and not on the other pairs,
\* where it moves over stroke/2.
C6_MatchesSimpleStroke ==
    (op.kind = "next" /\ p.sensation = 0) =>
        /\ pat = "TeasingPounding" =>
                p.nextMove = SimpleCmd(p.stroke, p.depth, cycleTime, p.index)
        /\ (pat = "HalfnHalf" /\ ~UsedHalf) =>
                p.nextMove = SimpleCmd(p.stroke, p.depth, cycleTime, p.index)
        /\ (pat = "HalfnHalf" /\ proto) => (UsedHalf <=> p.index % 4 \in {0, 1})

\* C6 as stated: TeasingPounding and HalfnHalf both return SimpleStroke's
\* command for every index of the sequence 0, 1, 2, ...
C6_AsStated ==
    (op.kind = "next" /\ p.sensation = 0 /\ proto
        /\ pat \in {"TeasingPounding", "HalfnHalf"}) =>
        p.nextMove = SimpleCmd(p.stroke, p.depth, cycleTime, p.index)

\* C6 witness: TeasingPounding, brought back to sensation 0 after another
\* value, returns the outward command of a non-trivial configuration.
C6_Witness ==
    /\ pat = "TeasingPounding" /\ op.kind = "next" /\ p.sensation = 0
    /\ "sensation" \in called /\ p.index = 3 /\ p.stroke = 7
    /\ cycleTime = I2R(3) /\ p.nextMove.speed = 7

\* C7: for every Knot nextTarget call made while the gate is not pending, the
\* behaviour that runs is the one of phase index mod 5: 0 the out-stroke to
\* depth - stroke, 1 the partial in-stroke to depth - stroke + 70% of stroke,
\* 3 the in-stroke to depth at the slow speed, 2 and 4 arming the pause.
C7_PhaseByIndex ==
    [][(pat = "Knot" /\ op'.kind = "next" /\ ~op'.pending) =>
            LET phase == p'.index % 5
                armed == p'.startDelayMillis = now
                                /\ p'.nextMove.stroke = p.nextMove.stroke
                                /\ p'.nextMove.speed = p.nextMove.speed
                kept == p'.startDelayMillis = p.startDelayMillis
            IN  /\ phase = 0 => kept /\ p'.nextMove.stroke = p.depth - p.stroke
                /\ phase = 1 =>
                        kept /\ p'.nextMove.stroke
                                    = (p.depth - p.stroke) + (7 * p.stroke) \div 10
                /\ phase = 2 => armed
                /\ phase = 3 => /\ kept
                                /\ p'.nextMove.stroke = p.depth
                                /\ p'.nextMove.speed = p.slowSpeed
                /\ phase = 4 => armed]_vars

\* C7 witness: after an earlier pause, a call with index 8 outside the protocol
\* ran phase 3.
C7_Witness ==
    /\ pat = "Knot" /\ Returned /\ ~op.pending /\ ~proto
    /\ p.index = 8 /\ p.startDelayMillis > 0
    /\ p.stroke = 7 /\ p.nextMove.stroke = p.depth /\ p.nextMove.speed = p.slowSpeed

\* C8: Deeper with stroke = 1000 and sensation = 0 set, driven by the protocol:
\* the inward target strictly increases over 11 consecutive inward strokes,
\* the 11th inward stroke targets exactly depth, the 12th is back at the
\* minimum amplitude, and every outward stroke targets depth - stroke.
C8_RampReachesDepth ==
    [][(pat = "Deeper" /\ op'.kind = "next" /\ proto' /\ g'.extra = 0
            /\ p.stroke = 1000 /\ p.sensation = 0 /\ "sensation" \in called) =>
            LET n == (p'.index \div 2) + 1
                target == p'.nextMove.stroke
                lowest == p.depth - p.stroke + 1000 \div 11
            IN  IF p'.index % 2 = 1 THEN target = p.depth - p.stroke
                ELSE /\ (1 < n /\ n <= 11) => target > g.lastIn
                     /\ n = 11 => target = p.depth
                     /\ n \in {1, 12} => target = lowest]_vars

\* C9: SimpleStroke: every nextTarget(index) returns skip = false,
\* speed = int(1.5 * stroke / (cycleTime / 2)),
\* acceleration = int(3 * speed / (cycleTime / 2)) and targetPosition = depth
\* for even index, depth - stroke for odd index; with cycleTime = 2,
\* stroke = 1000, depth = 1000 this is speed 1500, acceleration 4500 and
\* targets 1000 then 0.
C9_SimpleStrokeCommand ==
    (pat = "SimpleStroke" /\ op.kind = "next") =>
        LET speed == (3 * p.stroke * cycleTime[2]) \div cycleTime[1]
            acc == (6 * speed * cycleTime[2]) \div cycleTime[1]
            even == p.index % 2 = 0
        IN  /\ p.nextMove = [stroke |-> IF even THEN p.depth ELSE p.depth - p.stroke,
                             speed |-> speed, acceleration |-> acc, skip |-> FALSE]
            /\ (cycleTime = I2R(2) /\ p.stroke = 1000 /\ p.depth = 1000) =>
                    p.nextMove = [stroke |-> IF even THEN 1000 ELSE 0,
                                  speed |-> 1500, acceleration |-> 4500, skip |-> FALSE]

\* C9 witness: the second call of the concrete scenario.
C9_Witness ==
    /\ pat = "SimpleStroke" /\ op.kind = "next" /\ proto /\ p.index = 1
    /\ cycleTime = I2R(2) /\ p.stroke = 1000 /\ p.depth = 1000
    /\ p.nextMove = [stroke |-> 0, speed |-> 1500, acceleration |-> 4500, skip |-> FALSE]

\* 1.5 * stroke / (cycleTime / 2) is a whole number
WholeSpeed == (3 * p.stroke * cycleTime[2]) % cycleTime[1] = 0

Limits == {<<0, 0, 0>>, <<10, 20, 3>>}

SetSpeedLimit(l) ==
    /\ p' = setSpeedLimit(pat, p, l[1], l[2], l[3])
    /\ p' # p
    /\ op' = Op("limit", FALSE)
    /\ UNCHANGED <<pat, now, idx, proto, called, cycleTime, g>>

InitLimit == InitOf(Variants)

NextLimit ==
    \/ SetTimeOfStroke(I2R(2), MaxExtra)
    \/ \E s \in Strokes : SetStroke(s, MaxExtra)
    \/ SetDepth(1000, MaxExtra)
    \/ \E s \in {0, 100} : SetSensation(s, MaxExtra)
    \/ \E l \in Limits : SetSpeedLimit(l)
    \/ NextTargetSeq(MaxIndex)
    \/ \E i \in 0..MaxIndex : NextTargetAny(i, MaxExtra)
    \/ \E d \in ClockSteps : Tick(d, MaxClock)

SpecLimit == InitLimit /\ [][NextLimit]_vars

\* the instance q as it would be had setSpeedLimit never been called
NoLimits(q) == [q EXCEPT !.maxSpeed = 0, !.maxAcceleration = 0, !.stepsPerMM = 0]

\* r is what some setter call makes of q
SetterStep(v, q, r) ==
    \E u \in Undef(v) :
        \/ \E t \in Times : r = setTimeOfStroke(v, q, t, u)
        \/ \E x \in Strokes : r = setStroke(v, q, x, u)
        \/ \E d \in Depths : r = setDepth(v, q, d)
        \/ \E x \in Sensations : r = setSensation(v, q, x, u)

\* C11: for every variant, setSpeedLimit changes the fields _maxSpeed,
\* _maxAcceleration and _stepsPerMM only, and every later setter and nextTarget
\* call leaves the instance, the returned command included, as it would be had
\* the limits never been set: speed and acceleration are not clamped.
C11_SpeedLimitFrame ==
    [][/\ op'.kind = "limit" =>
            /\ NoLimits(p') = NoLimits(p)
            /\ <<p'.maxSpeed, p'.maxAcceleration, p'.stepsPerMM>> \in Limits
       /\ op'.kind = "next" =>
            /\ NoLimits(p') = nextTarget(pat, NoLimits(p), p'.index, now)
            /\ p'.nextMove = nextTarget(pat, NoLimits(p), p'.index, now).nextMove
       /\ op'.kind = "set" => SetterStep(pat, NoLimits(p), NoLimits(p'))]_vars

\* C11 witness: after setSpeedLimit(10, 20, 3) a command is returned whose speed
\* and acceleration exceed the limits.
C11_Witness ==
    /\ op.kind = "next" /\ pat = "Deeper" /\ p.index = 3
    /\ <<p.maxSpeed, p.maxAcceleration, p.stepsPerMM>> = <<10, 20, 3>>
    /\ p.nextMove.speed > p.maxSpeed /\ p.nextMove.acceleration > p.maxAcceleration

(***************************************************************************)
(* The three gated variants polled by a caller that follows the protocol   *)
(* while the clock advances                                                *)
(***************************************************************************)
MaxIndexLive == 6
MaxClockLive == 15000

InitLive == InitOf(Gated)

TickLive == \E d \in ClockSteps : Tick(d, MaxClockLive)

\* a call that follows the protocol would return a command: it is enabled, and
\* it changes the state since it advances the index
PollDue == Configured /\ proto /\ idx <= MaxIndexLive /\ ~Pending(pat, p, now)

\* the configuration is set before the first nextTarget call and then kept
NextLive ==
    \/ \E t \in Times : SetTimeOfStroke(t, 0)
    \/ SetStroke(1000, 0)
    \/ SetDepth(1000, 0)
    \/ \E s \in Sensations : SetSensation(s, 0)
    \/ NextTargetSeq(MaxIndexLive)
    \/ TickLive

\* the clock keeps advancing and the caller keeps polling: weak fairness of
\* Tick, and of the calls that follow the protocol where they return a command
\* (WF_vars(PollDue /\ NextTargetSeq(MaxIndexLive)), the enabling condition
\* written out as PollDue)
SpecLive ==
    /\ InitLive /\ [][NextLive]_vars
    /\ WF_vars(TickLive)
    /\ (<>[]PollDue => []<><<op'.kind = "next">>_vars)

\* the last call was skipped, and the clock and the index can still advance
\* past the end of the pause within the bounds of the model
SkippedInBounds ==
    /\ op.kind = "next" /\ p.nextMove.skip
    /\ idx <= MaxIndexLive
    /\ \E d \in ClockSteps : p.startDelayMillis + p.delayInMillis + d <= MaxClockLive

\* C12: StopNGo, Slammin and Knot with a valid configuration: when the clock
\* keeps advancing and the caller polls again with the same index after each
\* skipped call, every skipped call is eventually followed by a call that
\* returns skip = false.
C12_PauseEnds == SkippedInBounds ~> Returned

\* C12 witness: Knot returned a command after a pause armed after time 0 had
\* elapsed.
C12_Witness ==
    /\ pat = "Knot" /\ Returned /\ p.index = 3
    /\ p.startDelayMillis > 0 /\ now > p.startDelayMillis + p.delayInMillis

\* C13: RoboStroke: the ramp fraction x that setSensation sets is smaller than
\* 1/3 for every sensation in (0, 100], larger than 1/3 for every sensation in
\* [-100, 0), and within [0.05, 0.5] for every sensation in [-100, 100].
C13_RampFraction ==
    (pat = "RoboStroke" /\ "sensation" \in called) =>
        /\ p.sensation > 0 => RLt(p.x, R(1, 3))
        /\ p.sensation < 0 => RLt(R(1, 3), p.x)
        /\ RLe(R(1, 20), p.x) /\ RLe(p.x, R(1, 2))

(***************************************************************************)
(* Insist over more sensation values                                       *)
(***************************************************************************)
InsistSensations == {-100, -50, 0, 30, 100}

InitInsist == InitOf({"Insist"})

NextInsist ==
    \/ \E t \in Times : SetTimeOfStroke(t, MaxExtra)
    \/ \E s \in Strokes : SetStroke(s, MaxExtra)
    \/ \E d \in Depths : SetDepth(d, MaxExtra)
    \/ \E s \in InsistSensations : SetSensation(s, MaxExtra)
    \/ NextTargetSeq(MaxIndex)
    \/ \E i \in 0..MaxIndex : NextTargetAny(i, MaxExtra)

SpecInsist == InitInsist /\ [][NextInsist]_vars

\* int(1.5 * stroke / (cycleTime / 2))
FullStrokeSpeed(stroke, cyc) == (3 * stroke * cyc[2]) \div cyc[1]

\* int(stroke * (100 - |sensation|) / 100)
Excursion(stroke, sensation) == (stroke * (100 - Abs(sensation))) \div 100

\* the target of an Insist command for index: the excursion is anchored at
\* depth for sensation > 0 and at depth - stroke otherwise
InsistTarget(q, index) ==
    IF q.sensation > 0
    THEN IF index % 2 = 1 THEN q.depth - Excursion(q.stroke, q.sensation) ELSE q.depth
    ELSE IF index % 2 = 1 THEN q.depth - q.stroke
         ELSE (q.depth - q.stroke) + Excursion(q.stroke, q.sensation)

\* the last operation was a nextTarget call of a configured Insist instance
\* whose sensation lies in (-100, 100)
InsistReturned ==
    /\ pat = "Insist" /\ op.kind = "next"
    /\ -100 < p.sensation /\ p.sensation < 100

InsistCmd(stroke, depth, cyc, sensation, index) ==
    Insist_nextTarget(
        Insist_setSensation(
            Insist_setTimeOfStroke(
                Pattern_setDepth(
                    Insist_setStroke(Insist_new(stroke, depth, cyc), stroke, 0),
                    depth),
                cyc, 0),
            sensation, 0),
        index).nextMove

\* C15: Insist: the command nextTarget(index) returns depends only on the
\* current stroke, depth, cycleTime and sensation and on the parity of index:
\* an instance brought to a configuration by any order of setter calls and any
\* number of earlier nextTarget calls returns what a fresh instance brought to
\* the same configuration returns.
C15_HistoryIndependent ==
    (InsistReturned /\ "sensation" \in called) =>
        p.nextMove = InsistCmd(p.stroke, p.depth, cycleTime, p.sensation, p.index % 2)

\* C16: HalfnHalf driven by the protocol: pair k (indices 2k and 2k + 1) uses
\* stroke/2 when k is even and the full stroke when k is odd, for both of its
\* calls; the inward target is depth - stroke + stroke/2 on half pairs and
\* depth on full pairs, the outward target is depth - stroke, the speed of
\* either call is computed from the pair's stroke length, and the half-flag is
\* toggled by the outward call only.
C16_HalfEveryOtherPair ==
    (pat = "HalfnHalf" /\ op.kind = "next" /\ proto) =>
        LET out == p.index % 2 = 1
            halfPair == (p.index \div 2) % 2 = 0
            len == IF halfPair THEN p.stroke \div 2 ELSE p.stroke
            time == IF out THEN p.timeOfOutStroke ELSE p.timeOfInStroke
        IN  /\ UsedHalf = halfPair
            /\ p.half = IF out THEN ~halfPair ELSE halfPair
            /\ p.nextMove.stroke = IF out THEN p.depth - p.stroke
                                   ELSE (p.depth - p.stroke) + len
            /\ p.nextMove.speed = TrapezSpeed(len, time)
            /\ ~p.nextMove.skip

\* C16 witness: the outward call of the third pair, again a half pair.
C16_Witness ==
    /\ pat = "HalfnHalf" /\ op.kind = "next" /\ proto /\ p.index = 5
    /\ p.stroke = 1000 /\ ~p.half
    /\ p.nextMove.stroke = p.depth - 1000
    /\ p.nextMove.speed = TrapezSpeed(500, p.timeOfOutStroke)

\* C17: TeasingPounding and HalfnHalf, once setTimeOfStroke has been called:
\* after any sequence of setSensation and setTimeOfStroke calls
\* _timeOfInStroke + _timeOfOutStroke equals the configured cycleTime and both
\* are positive; the in-stroke time is the shorter one for sensation > 0, the
\* out-stroke time for sensation < 0, and they are equal for sensation = 0.
C17_TimingSplit ==
    (pat \in {"TeasingPounding", "HalfnHalf"} /\ "time" \in called) =>
        /\ RAdd(p.timeOfInStroke, p.timeOfOutStroke) = cycleTime
        /\ RLt(I2R(0), p.timeOfInStroke) /\ RLt(I2R(0), p.timeOfOutStroke)
        /\ p.sensation > 0 => RLt(p.timeOfInStroke, p.timeOfOutStroke)
        /\ p.sensation < 0 => RLt(p.timeOfOutStroke, p.timeOfInStroke)
        /\ p.sensation = 0 => p.timeOfInStroke = p.timeOfOutStroke

\* C17 witness: HalfnHalf with cycleTime 3 and sensation -50 splits the time
\* into 5/2 inward and 1/2 outward.
C17_Witness ==
    /\ pat = "HalfnHalf" /\ op.kind = "set" /\ cycleTime = I2R(3) /\ p.sensation = -50
    /\ p.timeOfInStroke = R(5, 2) /\ p.timeOfOutStroke = R(1, 2)

\* the time after which a nextTarget call made now finds the gate open
Deadline(v, q) ==
    q.startDelayMillis
        + (CASE v = "Slammin" -> SpeedDelay(q.speed, 125)
             [] v = "Knot" -> SpeedDelay(q.speed, 550)
             [] OTHER -> q.delayInMillis)

\* C18: the delay gate under a non-decreasing clock, once the pattern has armed
\* it: as long as the pattern does not arm it again, the deadline fixed when it
\* was armed stays the same, and a gate that reports not-pending keeps
\* reporting not-pending, whatever setter calls happen in between.
C18_GateStaysOpen ==
    [][(pat \in Gated /\ g.arms > 0 /\ p'.startDelayMillis = p.startDelayMillis) =>
            /\ Deadline(pat, p') = Deadline(pat, p)
            /\ ~Pending(pat, p, now) => ~Pending(pat, p', now')]_vars

(***************************************************************************)
(* Slammin with a finer clock and more stroke lengths                      *)
(***************************************************************************)
SlamClockSteps == {500}

InitSlammin == InitOf({"Slammin"})

NextSlammin ==
    \/ \E t \in Times : SetTimeOfStroke(t, MaxExtra)
    \/ \E s \in PlainStrokes : SetStroke(s, MaxExtra)
    \/ SetDepth(1000, MaxExtra)
    \/ \E s \in Sensations : SetSensation(s, MaxExtra)
    \/ NextTargetSeq(MaxIndex)
    \/ \E i \in 0..MaxIndex : NextTargetAny(i, MaxExtra)
    \/ \E d \in SlamClockSteps : Tick(d, MaxClock)

SpecSlammin == InitSlammin /\ [][NextSlammin]_vars

\* C19: Slammin: a nextTarget call arms the gate exactly when it is a
\* non-skipped inward (even-index) call; a call returns skip = true exactly
\* when the clock does not exceed the arming time plus the current delay,
\* int(sqrt(350000 * cycleTime + 60000)) + 125, so that after a non-skipped
\* inward command no command is returned before the pause has elapsed.
C19_SlamminPause ==
    [][(pat = "Slammin" /\ op'.kind = "next") =>
            LET delay == SpeedDelay(cycleTime, 125)
                inward == ~p'.nextMove.skip /\ p'.index % 2 = 0
            IN  /\ p'.delayInMillis = delay
                /\ p'.nextMove.skip <=> ~(now > p.startDelayMillis + delay)
                /\ p'.startDelayMillis = IF inward THEN now ELSE p.startDelayMillis]_vars

\* C19 witness: an outward command returned after the pause that the inward
\* command armed after time 0 has elapsed, later calls in between having been
\* skipped.
C19_Witness ==
    /\ pat = "Slammin" /\ Returned /\ proto /\ p.index = 1
    /\ p.startDelayMillis > 0
    /\ now > p.startDelayMillis + p.delayInMillis
    /\ now - 500 > p.startDelayMillis

\* C20: Slammin: once setStroke, setTimeOfStroke or setSensation has been
\* called, every non-skipped outward (odd-index) command has speed >= 100.
C20_OutSpeedFloor ==
    (pat = "Slammin" /\ called \cap {"stroke", "time", "sensation"} # {}) =>
        /\ p.outStrokeSpeed >= 100
        /\ (Returned /\ p.index % 2 = 1) =>
                p.nextMove.speed = p.outStrokeSpeed /\ p.nextMove.speed >= 100

\* C20 witness: with stroke 7 the computed out-stroke speed lies below 100 and
\* the outward command is returned with speed 100.
C20_Witness ==
    /\ pat = "Slammin" /\ Returned /\ p.index % 2 = 1 /\ p.stroke = 7
    /\ p.nextMove.speed = 100

(***************************************************************************)
(* Knot driven by the protocol over two full cycles of five phases         *)
(***************************************************************************)
MaxClockSeq == 6000
SeqClockSteps == {500}

InitKnotSeq == InitOf({"Knot"})

NextKnotSeq ==
    \/ \E t \in Times : SetTimeOfStroke(t, MaxExtra)
    \/ \E s \in Strokes : SetStroke(s, MaxExtra)
    \/ SetDepth(1000, MaxExtra)
    \/ \E s \in {0, 100} : SetSensation(s, MaxExtra)
    \/ NextTargetSeq(MaxIndexKnot)
    \/ \E d \in SeqClockSteps : Tick(d, MaxClockSeq)

SpecKnotSeq == InitKnotSeq /\ [][NextKnotSeq]_vars

\* C21: Knot driven with index 0, 1, 2, ... advanced only after non-skipped
\* calls: a call made while the gate is pending returns skip = true, leaves the
\* target and the gate start unchanged and does not advance the index; a
\* phase-3 command, and a phase-0 command after the first cycle, is returned
\* only when the clock exceeds the start of the pause that the preceding
\* phase-2 (phase-4) call armed plus the delay
\* int(sqrt(350000 * cycleTime + 60000)) + 550.
C21_KnotPauseRespected ==
    [][(pat = "Knot" /\ proto /\ op'.kind = "next") =>
            /\ op'.pending =>
                    /\ p'.nextMove.skip
                    /\ p'.nextMove.stroke = p.nextMove.stroke
                    /\ p'.startDelayMillis = p.startDelayMillis
                    /\ idx' = idx
            /\ (~p'.nextMove.skip /\ p'.index > 0 /\ p'.index % 5 \in {0, 3}) =>
                    /\ g.arms = (IF p'.index % 5 = 3 THEN 1 ELSE 2) + 2 * (p'.index \div 5)
                                    - (IF p'.index % 5 = 0 THEN 2 ELSE 0)
                    /\ g'.arms = g.arms
                    /\ now > p.startDelayMillis + SpeedDelay(cycleTime, 550)]_vars

\* C21 witness: the phase-0 command of the second cycle is returned after the
\* pause armed at phase 4 (the second arming) has elapsed, more than one clock
\* step after it was armed.
C21_Witness ==
    /\ pat = "Knot" /\ proto /\ Returned /\ p.index = 5 /\ g.arms = 2
    /\ p.startDelayMillis > 0
    /\ now > p.startDelayMillis + p.delayInMillis
    /\ now - 500 > p.startDelayMillis
    /\ p.nextMove.stroke = p.depth - p.stroke

\* C22: in StopNGo, Slammin and Knot a nextTarget call returns skip = true only
\* if an earlier nextTarget call of the instance armed the gate and the pause
\* has not yet elapsed; in particular the first call nextTarget(0) on a
\* configured instance returns skip = false whatever the clock value is.
C22_SkipOnlyAfterArming ==
    (pat \in Gated /\ proto /\ op.kind = "next" /\ p.nextMove.skip) =>
        /\ g.arms > 0
        /\ ~(now > p.startDelayMillis + p.delayInMillis)

(***************************************************************************)
(* StopNGo called with indices of alternating parity: the caller passes    *)
(* 0, 1, 2, ... and advances the index after every call                    *)
(***************************************************************************)
MaxIndexAlt == 5

\* nextTarget(idx) by a caller that advances the index after every call
NextTargetAlt(max) ==
    /\ Configured
    /\ idx <= max
    /\ p' = nextTarget(pat, p, idx, now)
    /\ idx' = idx + 1
    /\ proto' = (proto /\ ~p'.nextMove.skip)
    /\ op' = Op("next", Pending(pat, p, now))
    /\ g' = History(p, p', idx)
    /\ UNCHANGED <<pat, now, called, cycleTime>>

InitStopNGoAlt == InitOf({"StopNGo"})

NextStopNGoAlt ==
    \/ SetTimeOfStroke(I2R(2), MaxExtra)
    \/ SetStroke(1000, MaxExtra)
    \/ SetDepth(1000, MaxExtra)
    \/ \E s \in LongSensations : SetSensation(s, MaxExtra)
    \/ NextTargetAlt(MaxIndexAlt)
    \/ \E d \in ClockSteps : Tick(d, MaxClock)

SpecStopNGoAlt == InitStopNGoAlt /\ [][NextStopNGoAlt]_vars

\* C23: StopNGo under any sequence of nextTarget calls whose indices alternate
\* in parity starting at 0, any clock and any setSensation calls:
\* 1 <= _strokeSeriesIndex <= 5 and 0 <= _strokeIndex <= _strokeSeriesIndex in
\* every state, and the gate is armed only by a non-skipped outward call for
\* which _strokeIndex >= _strokeSeriesIndex held on entry.
C23_SeriesCounters ==
    [][pat = "StopNGo" =>
            /\ 1 <= p'.strokeSeriesIndex /\ p'.strokeSeriesIndex <= 5
            /\ 0 <= p'.strokeIndex /\ p'.strokeIndex <= p'.strokeSeriesIndex
            /\ p'.startDelayMillis # p.startDelayMillis =>
                    /\ op'.kind = "next" /\ ~p'.nextMove.skip /\ p'.index % 2 = 1
                    /\ p.strokeIndex >= p.strokeSeriesIndex]_vars

\* C24: Knot: a nextTarget call at phase 2 or phase 4 (index mod 5) made while
\* the gate is not pending arms the gate and returns skip = false, with the
\* targetPosition and the speed of the previously returned command unchanged.
C24_PausePhaseFrame ==
    [][(pat = "Knot" /\ op'.kind = "next" /\ ~op'.pending /\ p'.index % 5 \in {2, 4}) =>
            /\ p'.startDelayMillis = now
            /\ ~p'.nextMove.skip
            /\ p'.nextMove.stroke = p.nextMove.stroke
            /\ p'.nextMove.speed = p.nextMove.speed]_vars

\* C24 witness: the phase-2 call after the partial in-stroke of a 1000-step
\* stroke armed the gate and returned the target and speed of that in-stroke.
C24_Witness ==
    /\ pat = "Knot" /\ Returned /\ ~op.pending /\ proto /\ p.index = 2
    /\ p.startDelayMillis = now /\ now > 0
    /\ p.stroke = 1000 /\ p.nextMove.stroke = p.depth - 300
    /\ p.nextMove.speed = 800

\* C25: Knot: every non-skipped call at phase 0, 1 or 3 returns the
\* acceleration int(k * speed / halfTime), where speed is the speed the
\* previous call left stored (not the one assigned in this call), halfTime is
\* half the cycle time and k is 2.0 for phases 0 and 1 and 2.3 for phase 3; the
\* first phase-0 command of a fresh instance carries acceleration 0.
C25_AccelFromPreviousSpeed ==
    [][(pat = "Knot" /\ op'.kind = "next" /\ ~p'.nextMove.skip
                /\ p'.index % 5 \in {0, 1, 3}) =>
            LET k == IF p'.index % 5 = 3 THEN R(23, 10) ELSE I2R(2)
                halfTime == RMul(R(1, 2), cycleTime)
            IN  /\ p'.nextMove.acceleration
                        = RInt(RDiv(RMul(k, I2R(p.nextMove.speed)), halfTime))
                /\ (p.index = -1 /\ p'.index % 5 = 0) => p'.nextMove.acceleration = 0]_vars

\* C25 witness: the phase-1 command after the phase-0 command of a 1000-step
\* stroke with cycle time 2 has speed 800 and the acceleration 2 * 1000 / 1 of
\* the phase-0 speed.
C25_Witness ==
    /\ pat = "Knot" /\ Returned /\ p.index = 1 /\ cycleTime = I2R(2)
    /\ p.nextMove.speed = 800 /\ p.nextMove.acceleration = 2000

====
